---- MODULE Spec2Model ----
(***************************************************************************)
(* PixelMilk-App/scripts: the Lyria batch reporter (lyria-batches.py) and  *)
(* the AVAILABLE_AUDIO synchronizer (sync-audio.py) as state machines.     *)
(* The two scripts share nothing; each has its own specification           *)
(* (SpecBatch, SpecSync) over its own variables.                           *)
(***************************************************************************)
EXTENDS Naturals, Integers, Sequences, FiniteSets, TLC

VARIABLES
    \* lyria-batches.py
    data,       \* json.load(f): the (pid, info) items in the mapping's order
    playlists,  \* the grouping dict, as its items <<name, tracks>> in insertion order
    argv,       \* sys.argv[1:] of the run
    out,        \* the lines printed so far
    calls,      \* the names print_batch was invoked with, in order
    pc,         \* "load" -> "main" -> "done"
    \* sync-audio.py
    dir,        \* the names of the entries of public/audio
    file,       \* the text of PalettePlaylist.tsx, a sequence of characters
    result,     \* how the last run ended: "none", "updated", "nochange", "error"
    nrepl,      \* the substitutions re.sub made in the last run
    writes,     \* the times the last run opened the target for writing
    fresh       \* TRUE when a run has ended and the directory has not changed since

batchVars == <<data, playlists, argv, out, calls, pc>>
syncVars == <<dir, file, result, nrepl, writes, fresh>>
vars == <<data, playlists, argv, out, calls, pc, dir, file, result, nrepl, writes, fresh>>

Min(a, b) == IF a < b THEN a ELSE b

(***************************************************************************)
(* lyria-batches.py                                                        *)
(***************************************************************************)

\* The longest soundtrack.json the model loads.
MaxTracks == 7

\* "batches of 6 palettes": the step of range() and the slice width.
BatchSize == 6

\* The records of soundtrack.json: every field is optional.
Infos ==
    { [bpm |-> "120"],
      [playlist |-> "Haunted Cartridge"],
      [playlist |-> "Neon Arcade", bpm |-> "90", energy |-> "high", audioPrompt |-> "arp"],
      [playlist |-> "Uncategorized", energy |-> "low"] }

\* The playlist names a run may be given on the command line.
ArgNames == {"Haunted Cartridge", "Uncategorized", "Lost Levels"}

\* dict.get(key, default)
Get(info, key, default) == IF key \in DOMAIN info THEN info[key] ELSE default

\* A printed line.
Line(kind, pl, pid, n, k) ==
    [kind |-> kind, pl |-> pl, pid |-> pid, n |-> n, k |-> k,
     bpm |-> "", energy |-> "", prompt |-> ""]

TrackLine(kind, pid, info) ==
    [kind |-> kind, pl |-> "", pid |-> pid, n |-> 0, k |-> 0,
     bpm |-> Get(info, "bpm", "?"), energy |-> Get(info, "energy", "?"),
     prompt |-> Get(info, "audioPrompt", "No prompt")]

Keys(pls) == [k \in 1..Len(pls) |-> pls[k][1]]

HasKey(pls, pl) == \E k \in 1..Len(pls) : pls[k][1] = pl

\* playlists[pl]
Lookup(pls, pl) == pls[CHOOSE k \in 1..Len(pls) : pls[k][1] = pl][2]

\* A wrong grouping step: the group is reset instead of extended.
SetDefaultAppend_Overwrite(pls, pl, item) ==
    IF HasKey(pls, pl)
    THEN [k \in 1..Len(pls) |-> IF pls[k][1] = pl THEN <<pl, <<item>>>> ELSE pls[k]]
    ELSE Append(pls, <<pl, <<item>>>>)

\* playlists.setdefault(pl, []).append(item)
SetDefaultAppend(pls, pl, item) ==
    IF HasKey(pls, pl)
    THEN [k \in 1..Len(pls) |->
            IF pls[k][1] = pl THEN <<pl, Append(pls[k][2], item)>> ELSE pls[k]]
    ELSE Append(pls, <<pl, <<item>>>>)

RECURSIVE GroupFrom(_, _, _)
GroupFrom(d, i, pls) ==
    IF i > Len(d) THEN pls
    ELSE GroupFrom(d, i + 1,
                   SetDefaultAppend(pls, Get(d[i][2], "playlist", "Uncategorized"), d[i]))

\* The loop "for pid, info in data.items()" over an empty dict.
GroupByPlaylist(d) == GroupFrom(d, 1, <<>>)

\* sorted() is stable: an index goes after every index whose key is not greater.
InsertIdx(perm, keys, j) ==
    LET pos == Cardinality({p \in 1..Len(perm) : keys[perm[p]] <= keys[j]})
    IN  SubSeq(perm, 1, pos) \o <<j>> \o SubSeq(perm, pos + 1, Len(perm))

RECURSIVE SortIdxFrom(_, _, _)
SortIdxFrom(keys, j, perm) ==
    IF j > Len(keys) THEN perm ELSE SortIdxFrom(keys, j + 1, InsertIdx(perm, keys, j))

\* sorted(s, key=...): s reordered by the keys, ascending, ties in s's order.
SortedByKeys(s, keys) ==
    LET perm == SortIdxFrom(keys, 1, <<>>) IN [i \in 1..Len(s) |-> s[perm[i]]]

\* sorted(playlists.items(), key=lambda x: -len(x[1]))
SortedItems(pls) == SortedByKeys(pls, [k \in 1..Len(pls) |-> 0 - Len(pls[k][2])])

\* A wrong order: the keys as the dict iterates them.
SortedKeys_Unsorted(pls) == Keys(pls)

\* sorted(playlists.keys(), key=lambda x: -len(playlists[x]))
SortedKeys(pls) ==
    SortedByKeys(Keys(pls), [k \in 1..Len(pls) |-> 0 - Len(Lookup(pls, Keys(pls)[k]))])

\* A wrong count: the partial batch is dropped.
BatchCount_Floor(n) == n \div BatchSize

\* batches = (len(tracks) + 5) // 6
BatchCount(n) == (n + 5) \div BatchSize

\* print_playlist_summary()
PrintPlaylistSummary(pls) ==
    LET items == SortedItems(pls)
    IN  << Line("rule", "", 0, 0, 0), Line("title", "", 0, 0, 0), Line("rule", "", 0, 0, 0) >>
        \o [k \in 1..Len(items) |->
              Line("summary", items[k][1], 0, Len(items[k][2]), BatchCount(Len(items[k][2])))]
        \o << Line("blank", "", 0, 0, 0), Line("usage", "", 0, 0, 0) >>

\* A wrong slice: one track too many, so the next batch repeats it.
Slice_Inclusive(tracks, i) == SubSeq(tracks, i + 1, Min(i + BatchSize + 1, Len(tracks)))

\* tracks[i:i+6]
Slice(tracks, i) == SubSeq(tracks, i + 1, Min(i + BatchSize, Len(tracks)))

\* One turn of the loop "for i in range(0, len(tracks), 6)".
OneBatch(tracks, i) ==
    LET batch == Slice(tracks, i)
        batch_num == (i \div BatchSize) + 1
    IN  << Line("batch", "", 0, Len(batch), batch_num),
           Line("blank", "", 0, 0, 0),
           Line("filenames", "", 0, 0, 0) >>
        \o [j \in 1..Len(batch) |-> Line("file", "", batch[j][1], 0, 0)]
        \o << Line("blank", "", 0, 0, 0),
              Line("prompts", "", 0, 0, 0),
              Line("dashes", "", 0, 0, 0) >>
        \o [j \in 1..Len(batch) |-> TrackLine("track", batch[j][1], batch[j][2])]
        \o << Line("blank", "", 0, 0, 0), Line("rule", "", 0, 0, 0) >>

RECURSIVE BatchLines(_, _)
BatchLines(tracks, i) ==
    IF i >= Len(tracks) THEN <<>>
    ELSE OneBatch(tracks, i) \o BatchLines(tracks, i + BatchSize)

\* A wrong fallback: the message without the summary.
PrintBatch_NoFallback(pls, playlist_name) ==
    IF ~HasKey(pls, playlist_name)
    THEN << Line("notfound", playlist_name, 0, 0, 0) >>
    ELSE << Line("rule", "", 0, 0, 0), Line("header", playlist_name, 0, 0, 0),
            Line("rule", "", 0, 0, 0) >>
         \o BatchLines(Lookup(pls, playlist_name), 0)

\* print_batch(playlist_name)
PrintBatch(pls, playlist_name) ==
    IF ~HasKey(pls, playlist_name)
    THEN << Line("notfound", playlist_name, 0, 0, 0) >> \o PrintPlaylistSummary(pls)
    ELSE << Line("rule", "", 0, 0, 0), Line("header", playlist_name, 0, 0, 0),
            Line("rule", "", 0, 0, 0) >>
         \o BatchLines(Lookup(pls, playlist_name), 0)

RECURSIVE PrintAllFrom(_, _, _)
PrintAllFrom(pls, order, k) ==
    IF k > Len(order) THEN <<>>
    ELSE PrintBatch(pls, order[k]) \o PrintAllFrom(pls, order, k + 1)

\* print_all_batches(): the lines printed
PrintAllBatches(pls) == PrintAllFrom(pls, SortedKeys(pls), 1)

\* Before soundtrack.json is read; the synchronizer's variables stay as they are.
InitBatch ==
    /\ dir = {}
    /\ file = <<>>
    /\ result = "none"
    /\ nrepl = 0
    /\ writes = 0
    /\ fresh = FALSE
    /\ data = <<>>
    /\ playlists = <<>>
    /\ argv = <<>>
    /\ out = <<>>
    /\ calls = <<>>
    /\ pc = "load"

\* Module level: json.load, then the grouping loop.
Load ==
    /\ pc = "load"
    /\ \E n \in 0..MaxTracks :
         \E f \in [1..n -> Infos] :
            /\ data' = [i \in 1..n |-> <<i, f[i]>>]
            /\ playlists' = GroupByPlaylist(data')
    /\ pc' = "main"
    /\ UNCHANGED <<argv, out, calls>>

\* python scripts/lyria-batches.py
MainSummary ==
    /\ pc = "main"
    /\ argv' = <<>>
    /\ out' = PrintPlaylistSummary(playlists)
    /\ calls' = <<>>
    /\ pc' = "done"
    /\ UNCHANGED <<data, playlists>>

\* python scripts/lyria-batches.py --all
MainAll ==
    /\ pc = "main"
    /\ argv' = <<"--all">>
    /\ out' = PrintAllBatches(playlists)
    /\ calls' = SortedKeys(playlists)
    /\ pc' = "done"
    /\ UNCHANGED <<data, playlists>>

\* python scripts/lyria-batches.py "Playlist Name"
MainReport ==
    /\ pc = "main"
    /\ \E name \in ArgNames :
         /\ argv' = <<name>>
         /\ out' = PrintBatch(playlists, name)
         /\ calls' = <<name>>
    /\ pc' = "done"
    /\ UNCHANGED <<data, playlists>>

(***************************************************************************)
(* sync-audio.py.  Text is a sequence of one-character strings.            *)
(***************************************************************************)

\* The most entries public/audio holds at once.
MaxFiles == 2

\* "const AVAILABLE_AUDIO = new Set([\n"
OpenMarker ==
    << "c", "o", "n", "s", "t", " ", "A", "V", "A", "I", "L", "A", "B", "L", "E", "_",
       "A", "U", "D", "I", "O", " ", "=", " ", "n", "e", "w", " ", "S", "e", "t", "(",
       "[", "\n" >>

\* "]);"
CloseMarker == << "]", ")", ";" >>

\* "  '" and "',\n", the two ends of a name line
LineOpen == << " ", " ", "'" >>

LineClose == << "'", ",", "\n" >>

\* ".wav"
Extension == << ".", "w", "a", "v" >>

\* The entries public/audio may hold: a.wav, a'.wav, .wav, .wav.wav, a.txt,
\* \w.wav and \\.wav (a name of two backslashes).
Entries ==
    { << "a", ".", "w", "a", "v" >>,
      << "a", "'", ".", "w", "a", "v" >>,
      << ".", "w", "a", "v" >>,
      << ".", "w", "a", "v", ".", "w", "a", "v" >>,
      << "a", ".", "t", "x", "t" >>,
      << "\\", "w", ".", "w", "a", "v" >>,
      << "\\", "\\", ".", "w", "a", "v" >> }

\* ord() of the characters of the entries' names.
CodePoint(c) ==
    CASE c = "'" -> 39
      [] c = "." -> 46
      [] c = "\\" -> 92
      [] c = "a" -> 97
      [] c = "t" -> 116
      [] c = "v" -> 118
      [] c = "w" -> 119
      [] c = "x" -> 120

AsciiLetters ==
    { "a", "b", "c", "d", "e", "f", "g", "h", "i", "j", "k", "l", "m", "n", "o", "p", "q",
      "r", "s", "t", "u", "v", "w", "x", "y", "z", "A", "B", "C", "D", "E", "F", "G", "H",
      "I", "J", "K", "L", "M", "N", "O", "P", "Q", "R", "S", "T", "U", "V", "W", "X", "Y",
      "Z" }

MinOf(S) == CHOOSE x \in S : \A y \in S : x <= y

\* content[i:].startswith(lit), i counted from 1
IsAt(content, i, lit) ==
    /\ i + Len(lit) - 1 <= Len(content)
    /\ \A k \in 1..Len(lit) : content[i + k - 1] = lit[k]

\* Path.glob("*.wav"): the name ends in .wav (the star takes any prefix, an
\* empty one and a leading dot included).
GlobMatch(name) ==
    /\ Len(name) >= Len(Extension)
    /\ IsAt(name, Len(name) - Len(Extension) + 1, Extension)

\* PurePath.stem: the name up to its last dot, unless that dot is the first or
\* the last character.
Stem(name) ==
    LET dots == {k \in 1..Len(name) : name[k] = "."}
        i == IF dots = {} THEN 0 ELSE CHOOSE k \in dots : \A m \in dots : m <= k
    IN  IF 1 < i /\ i < Len(name) THEN SubSeq(name, 1, i - 1) ELSE name

\* str.__lt__: by code point at the first difference, else the shorter first
StrLess(a, b) ==
    LET n == Min(Len(a), Len(b))
        diff == {k \in 1..n : a[k] # b[k]}
    IN  IF diff = {} THEN Len(a) < Len(b)
        ELSE CodePoint(a[MinOf(diff)]) < CodePoint(b[MinOf(diff)])

\* The directory's entries in some order the system lists them in.
RECURSIVE ListDir(_)
ListDir(d) ==
    IF d = {} THEN <<>>
    ELSE LET e == CHOOSE x \in d : TRUE IN <<e>> \o ListDir(d \ {e})

\* One insertion of sorted(): after every element that is not greater.
InsertSorted(sorted, x) ==
    LET pos == Cardinality({p \in 1..Len(sorted) : ~StrLess(x, sorted[p])})
    IN  SubSeq(sorted, 1, pos) \o <<x>> \o SubSeq(sorted, pos + 1, Len(sorted))

RECURSIVE SortedFrom(_, _, _)
SortedFrom(s, k, sorted) ==
    IF k > Len(s) THEN sorted ELSE SortedFrom(s, k + 1, InsertSorted(sorted, s[k]))

\* audio_files = sorted([f.stem for f in audio_dir.glob("*.wav")])
AudioFiles(d) ==
    LET found == SelectSeq(ListDir(d), GlobMatch)
    IN  SortedFrom([k \in 1..Len(found) |-> Stem(found[k])], 1, <<>>)

RECURSIVE NameLines(_, _)
NameLines(names, k) ==
    IF k > Len(names) THEN <<>>
    ELSE LineOpen \o names[k] \o LineClose \o NameLines(names, k + 1)

\* set_content: the opening marker, a line for every name, the closing marker
RenderBlock(names) == OpenMarker \o NameLines(names, 1) \o CloseMarker

\* "  '[^']+',\n" at j: the place after the line, or 0.  [^']+ runs to the
\* next apostrophe, which must not be the first character after the quote.
LineEnd(content, j) ==
    IF ~IsAt(content, j, LineOpen) THEN 0
    ELSE LET quotes == {k \in (j + Len(LineOpen))..Len(content) : content[k] = "'"}
         IN  IF quotes = {} THEN 0
             ELSE LET k == MinOf(quotes)
                  IN  IF k > j + Len(LineOpen) /\ IsAt(content, k, LineClose)
                      THEN k + Len(LineClose)
                      ELSE 0

\* (?: ... )* at j: the place after the last line that matches.
RECURSIVE LinesEnd(_, _)
LinesEnd(content, j) ==
    LET e == LineEnd(content, j) IN IF e = 0 THEN j ELSE LinesEnd(content, e)

\* pattern.match(content, i): the place after the match, or 0.  Fewer lines
\* than LinesEnd takes never help: a line, not the closing marker, follows.
MatchEnd(content, i) ==
    IF ~IsAt(content, i, OpenMarker) THEN 0
    ELSE LET j == LinesEnd(content, i + Len(OpenMarker))
         IN  IF IsAt(content, j, CloseMarker) THEN j + Len(CloseMarker) ELSE 0

\* The control character a template escape stands for.
EscapeChar(c) ==
    CASE c = "n" -> "\n"
      [] c = "t" -> "\t"
      [] c = "r" -> "\r"
      [] c = "f" -> "\f"
      [] c = "a" -> "<BEL>"
      [] c = "b" -> "<BS>"
      [] c = "v" -> "<VT>"

\* re's template parser on the replacement: \\ is a backslash, \a \b \f \n \r
\* \t \v a control character, \ and another ASCII letter an error, \ and
\* anything else kept.  (No digit and no g follows a backslash in this model.)
RECURSIVE ExpandFrom(_, _)
ExpandFrom(t, i) ==
    LET slashes == {k \in i..Len(t) : t[k] = "\\"}
    IN  IF slashes = {} THEN [ok |-> TRUE, text |-> SubSeq(t, i, Len(t))]
        ELSE LET p == MinOf(slashes)
                 before == SubSeq(t, i, p - 1)
             IN  IF p = Len(t) THEN [ok |-> FALSE, text |-> <<>>]
                 ELSE LET c == t[p + 1]
                          rest == ExpandFrom(t, p + 2)
                      IN  IF c = "\\"
                          THEN [ok |-> rest.ok, text |-> before \o <<"\\">> \o rest.text]
                          ELSE IF c \in {"a", "b", "f", "n", "r", "t", "v"}
                               THEN [ok |-> rest.ok,
                                     text |-> before \o <<EscapeChar(c)>> \o rest.text]
                               ELSE IF c \in AsciiLetters
                                    THEN [ok |-> FALSE, text |-> <<>>]
                                    ELSE [ok |-> rest.ok,
                                          text |-> before \o <<"\\", c>> \o rest.text]

ExpandTemplate(t) == ExpandFrom(t, 1)

\* The scan of re.sub from place i: the leftmost match at or after i is
\* replaced and the scan goes on after it.
RECURSIVE SubFrom(_, _, _)
SubFrom(content, rep, i) ==
    LET starts == {p \in i..Len(content) : MatchEnd(content, p) > 0}
    IN  IF starts = {} THEN [text |-> SubSeq(content, i, Len(content)), n |-> 0]
        ELSE LET p == MinOf(starts)
                 rest == SubFrom(content, rep, MatchEnd(content, p))
             IN  [text |-> SubSeq(content, i, p - 1) \o rep \o rest.text, n |-> rest.n + 1]

\* A wrong substitution: as with count=1, only the first match is replaced.
ReSub_First(content, repl) ==
    LET t == ExpandTemplate(repl)
        starts == {p \in 1..Len(content) : MatchEnd(content, p) > 0}
    IN  IF ~t.ok THEN [ok |-> FALSE, text |-> content, n |-> 0]
        ELSE IF starts = {} THEN [ok |-> TRUE, text |-> content, n |-> 0]
        ELSE LET p == MinOf(starts)
             IN  [ok |-> TRUE,
                  text |-> SubSeq(content, 1, p - 1) \o t.text
                             \o SubSeq(content, MatchEnd(content, p), Len(content)),
                  n |-> 1]

\* re.sub(pattern, repl, content): the template is parsed first, and a bad
\* one raises before any search.
ReSub(content, repl) ==
    LET t == ExpandTemplate(repl)
    IN  IF ~t.ok THEN [ok |-> FALSE, text |-> content, n |-> 0]
        ELSE LET r == SubFrom(content, t.text, 1)
             IN  [ok |-> TRUE, text |-> r.text, n |-> r.n]

\* The target files a run may find.
TargetEmptyBlock == << "/", "\n" >> \o RenderBlock(<<>>) \o << "\n", "e" >>

TargetStaleBlock == << "/", "\n" >> \o RenderBlock(<< <<"z">>, <<"a">> >>)

TargetHandEdited ==
    OpenMarker \o << " ", " ", "\"", "a", "\"", ",", "\n" >> \o CloseMarker

TargetTwoBlocks ==
    RenderBlock(<< <<"z">> >>) \o << "\n" >> \o RenderBlock(<< <<"a">>, <<"z">> >>)

TargetNested ==
    OpenMarker \o << " ", " ", "'", "z" >> \o RenderBlock(<< <<"a">> >>)
        \o LineClose \o CloseMarker

Targets ==
    {TargetEmptyBlock, TargetStaleBlock, TargetHandEdited, TargetTwoBlocks, TargetNested}

\* Before the first run; the batch reporter's variables stay as they are.
InitSync ==
    /\ data = <<>>
    /\ playlists = <<>>
    /\ argv = <<>>
    /\ out = <<>>
    /\ calls = <<>>
    /\ pc = "load"
    /\ dir = {}
    /\ file \in Targets
    /\ result = "none"
    /\ nrepl = 0
    /\ writes = 0
    /\ fresh = FALSE

\* A file is put into public/audio between two runs.
AddFile ==
    /\ Cardinality(dir) < MaxFiles
    /\ \E f \in Entries \ dir : dir' = dir \cup {f}
    /\ fresh' = FALSE
    /\ UNCHANGED <<file, result, nrepl, writes>>

\* A file is removed from public/audio between two runs.
RemoveFile ==
    /\ \E f \in dir : dir' = dir \ {f}
    /\ fresh' = FALSE
    /\ UNCHANGED <<file, result, nrepl, writes>>

\* python scripts/sync-audio.py: scan, build the block, read, substitute, and
\* write when the text changed.  An error of re.sub ends the run before the
\* comparison.
SyncRun ==
    LET audio_files == AudioFiles(dir)
        set_content == RenderBlock(audio_files)
        content == file
        sub == ReSub(content, set_content)
        new_content == sub.text
    IN  /\ IF ~sub.ok
           THEN /\ result' = "error"
                /\ file' = file
                /\ writes' = 0
           ELSE IF new_content # content
                THEN /\ file' = new_content
                     /\ writes' = 1
                     /\ result' = "updated"
                ELSE /\ file' = file
                     /\ writes' = 0
                     /\ result' = "nochange"
        /\ nrepl' = sub.n
        /\ fresh' = TRUE
        /\ UNCHANGED dir

NextBatch ==
    \/ Load /\ UNCHANGED syncVars
    \/ MainSummary /\ UNCHANGED syncVars
    \/ MainAll /\ UNCHANGED syncVars
    \/ MainReport /\ UNCHANGED syncVars

SpecBatch == InitBatch /\ [][NextBatch]_vars

NextSync ==
    \/ AddFile /\ UNCHANGED batchVars
    \/ RemoveFile /\ UNCHANGED batchVars
    \/ SyncRun /\ UNCHANGED batchVars

SpecSync == InitSync /\ [][NextSync]_vars

(***************************************************************************)
(* The batch reporter's claims, stated over the loaded data and the lines  *)
(* printed.                                                                *)
(***************************************************************************)

\* The playlist a record belongs to.
PlaylistOf(i) == Get(data[i][2], "playlist", "Uncategorized")

PresentPlaylists == {PlaylistOf(i) : i \in 1..Len(data)}

DataIdxOf(pl) == {i \in 1..Len(data) : PlaylistOf(i) = pl}

\* The places <<group, position>> of the grouping that hold the i-th record.
PlacesOf(i) ==
    UNION { { <<g, j>> : j \in {x \in 1..Len(playlists[g][2]) : playlists[g][2][x] = data[i]} }
            : g \in 1..Len(playlists) }

\* The smallest q with q * d >= n.
CeilDiv(n, d) == CHOOSE q \in 0..n : q * d >= n /\ (q = 0 \/ (q - 1) * d < n)

KindIs(o, p, kind) == o[p].kind = kind

\* The positions of the lines of one kind from position p on, ascending.
PosOfKind(o, kind, p) ==
    SelectSeq([x \in 1..Len(o) |-> x], LAMBDA x : x >= p /\ KindIs(o, x, kind))

\* The lines of one kind between positions lo and hi (both excluded).
PidsBetween(o, kind, lo, hi) ==
    LET ps == PosOfKind(o, kind, 1)
        inside == SelectSeq(ps, LAMBDA p : lo < p /\ p < hi)
    IN  [x \in 1..Len(inside) |-> o[inside[x]].pid]

RECURSIVE SumSizes(_, _, _)
SumSizes(o, hd, j) == IF j > Len(hd) THEN 0 ELSE o[hd[j]].n + SumSizes(o, hd, j + 1)

IndexOfKey(pls, pl) == CHOOSE k \in 1..Len(pls) : pls[k][1] = pl

\* C1: the grouping is a complete partition of the loaded records: every
\* (identifier, record) pair is in exactly one group, the one keyed by its
\* playlist value ("Uncategorized" when absent), no group holds anything else,
\* and each group keeps the order of the source mapping.
C1_Partition ==
    pc # "load" =>
        /\ \A i \in 1..Len(data) :
              LET w == PlacesOf(i) IN
              /\ Cardinality(w) = 1
              /\ \A x \in w : playlists[x[1]][1] = PlaylistOf(i)
        /\ \A g \in 1..Len(playlists) :
              /\ \A h \in 1..Len(playlists) : playlists[g][1] = playlists[h][1] => g = h
              /\ playlists[g][2]
                   = SelectSeq(data, LAMBDA d :
                        Get(d[2], "playlist", "Uncategorized") = playlists[g][1])

C1_Witness ==
    /\ pc # "load"
    /\ Len(playlists) >= 3
    /\ \E i, j \in 1..Len(data) :
          /\ "playlist" \notin DOMAIN data[i][2]
          /\ "playlist" \in DOMAIN data[j][2]
          /\ data[j][2].playlist = "Uncategorized"
          /\ i + 1 < j
          /\ PlaylistOf(i + 1) # "Uncategorized"

\* C2: print_playlist_summary prints exactly one summary line for every
\* distinct playlist value of the data ("Uncategorized" standing for an absent
\* field) and for nothing else, with the group's track count and
\* ceil(track_count / 6) batches.
C2_Summary ==
    (pc = "done" /\ argv = <<>>) =>
        LET ps == PosOfKind(out, "summary", 1) IN
        /\ \A pl \in PresentPlaylists :
              Cardinality({x \in 1..Len(ps) : out[ps[x]].pl = pl}) = 1
        /\ \A x \in 1..Len(ps) :
              /\ out[ps[x]].pl \in PresentPlaylists
              /\ out[ps[x]].n = Cardinality(DataIdxOf(out[ps[x]].pl))
              /\ out[ps[x]].k = CeilDiv(out[ps[x]].n, 6)

C2_Witness ==
    /\ pc = "done"
    /\ argv = <<>>
    /\ \E p \in 1..Len(out) : out[p].kind = "summary" /\ out[p].n = 7 /\ out[p].k = 2

\* C3: print_batch on a known playlist prints chunks numbered 1, 2, 3, ...
\* without gaps, each of 1 to 6 tracks and only the last of fewer than 6; the
\* sizes sum to the group's track count and the chunks, in number order, list
\* the group's tracks in their stored order, none skipped or repeated.
C3_Chunks ==
    (pc = "done" /\ Len(argv) = 1 /\ argv[1] # "--all" /\ HasKey(playlists, argv[1])) =>
        LET tracks == Lookup(playlists, argv[1])
            hd == PosOfKind(out, "batch", 1)
            m == Len(hd)
            EndOf(j) == IF j < m THEN hd[j + 1] ELSE Len(out) + 1
            files == PidsBetween(out, "file", 0, Len(out) + 1)
        IN
        /\ \A j \in 1..m :
              /\ out[hd[j]].k = j
              /\ out[hd[j]].n = Len(PidsBetween(out, "file", hd[j], EndOf(j)))
              /\ out[hd[j]].n >= 1
              /\ out[hd[j]].n <= 6
              /\ j < m => out[hd[j]].n = 6
              /\ PidsBetween(out, "track", hd[j], EndOf(j))
                   = PidsBetween(out, "file", hd[j], EndOf(j))
        /\ SumSizes(out, hd, 1) = Len(tracks)
        /\ files = [x \in 1..Len(tracks) |-> tracks[x][1]]
        /\ PidsBetween(out, "file", 0, IF m = 0 THEN 1 ELSE hd[1]) = <<>>

C3_Witness ==
    /\ pc = "done"
    /\ argv = <<"Haunted Cartridge">>
    /\ Len(data) = 7
    /\ \E p, q \in 1..Len(out) :
          /\ out[p].kind = "batch" /\ out[p].k = 1 /\ out[p].n = 6
          /\ out[q].kind = "batch" /\ out[q].k = 2 /\ out[q].n = 1

\* C4: print_batch on a name that is no key of the grouping ends normally
\* with the "not found" line followed by exactly the lines of
\* print_playlist_summary, prints no batch, and leaves the grouping as loaded.
C4_Unknown ==
    (pc = "done" /\ Len(argv) = 1 /\ argv[1] # "--all" /\ ~HasKey(playlists, argv[1])) =>
        /\ Len(out) >= 1
        /\ out[1] = Line("notfound", argv[1], 0, 0, 0)
        /\ Tail(out) = PrintPlaylistSummary(playlists)
        /\ PosOfKind(out, "batch", 1) = <<>>
        /\ PosOfKind(out, "file", 1) = <<>>
        /\ Len(PosOfKind(out, "summary", 1)) = Len(playlists)
        /\ playlists = GroupByPlaylist(data)

C4_Witness ==
    /\ pc = "done"
    /\ argv = <<"Lost Levels">>
    /\ Len(playlists) >= 2
    /\ out[1].kind = "notfound"

\* C5: print_all_batches calls print_batch once for every key of the grouping
\* and for no other name, in the order print_playlist_summary lists the
\* groups: descending track count, equal counts in the grouping's insertion
\* order.
C5_AllOrder ==
    (pc = "done" /\ argv = <<"--all">>) =>
        LET summary == PrintPlaylistSummary(playlists)
            ps == PosOfKind(summary, "summary", 1)
            count(pl) == Cardinality(DataIdxOf(pl))
        IN
        /\ Len(calls) = Len(playlists)
        /\ \A g \in 1..Len(playlists) :
              Cardinality({x \in 1..Len(calls) : calls[x] = playlists[g][1]}) = 1
        /\ calls = [x \in 1..Len(ps) |-> summary[ps[x]].pl]
        /\ \A x, y \in 1..Len(calls) :
              x < y =>
                 /\ count(calls[x]) >= count(calls[y])
                 /\ count(calls[x]) = count(calls[y])
                      => IndexOfKey(playlists, calls[x]) < IndexOfKey(playlists, calls[y])
        /\ PosOfKind(out, "header", 1) # <<>> \/ calls = <<>>
        /\ LET hs == PosOfKind(out, "header", 1) IN calls = [x \in 1..Len(hs) |-> out[hs[x]].pl]

C5_Witness ==
    /\ pc = "done"
    /\ argv = <<"--all">>
    /\ Len(calls) = 3
    /\ calls # Keys(playlists)
    /\ \E x \in 1..2 : Len(Lookup(playlists, calls[x])) = Len(Lookup(playlists, calls[x + 1]))

(***************************************************************************)
(* The synchronizer's claims.  A step that leaves fresh TRUE is a run; a   *)
(* run from a state where fresh is TRUE follows a run with no change of    *)
(* the directory in between.                                               *)
(***************************************************************************)

\* The places of the text where the block pattern matches.
MatchStarts(content) == {p \in 1..Len(content) : MatchEnd(content, p) > 0}

\* The matches a left-to-right search takes: no two overlap, and a match left
\* out begins inside one that is taken.
TakenStarts(content) ==
    CHOOSE sel \in SUBSET MatchStarts(content) :
        /\ \A p, q \in sel : p < q => MatchEnd(content, p) <= q
        /\ \A q \in MatchStarts(content) \ sel :
              \E p \in sel : p < q /\ q < MatchEnd(content, p)

RECURSIVE GrowthOver(_, _, _)
GrowthOver(content, sel, rlen) ==
    IF sel = {} THEN 0
    ELSE LET p == CHOOSE x \in sel : TRUE
         IN  (rlen - (MatchEnd(content, p) - p)) + GrowthOver(content, sel \ {p}, rlen)

\* How far place q of the old text has moved in the new one.
Shift(content, sel, rlen, q) == GrowthOver(content, {p \in sel : p < q}, rlen)

\* C6 as stated: a run that follows a run, the directory unchanged in between,
\* takes the "no changes" path and leaves the target file as it is.
C6_Idempotent ==
    [][(fresh /\ fresh') => (file' = file /\ writes' = 0 /\ result' = "nochange")]_vars

C8_WriteOnlyOnChange ==
    [][fresh' =>
          /\ writes' <= 1
          /\ writes' = 1 <=> file' # file
          /\ (\/ MatchStarts(file) = {}
              \/ \A p \in MatchStarts(file) :
                    SubSeq(file, p, MatchEnd(file, p) - 1) = RenderBlock(AudioFiles(dir)))
                => (writes' = 0 /\ file' = file /\ result' = "nochange")]_vars

\* C9 as stated: the scan returns the base names of exactly the entries that
\* match the extension, in strictly ascending order (sorted, no duplicates),
\* every matching entry once, nothing else.
C9_CollectFiles ==
    LET r == AudioFiles(dir)
        matching == {f \in dir : GlobMatch(f)}
    IN  /\ \A k \in 1..(Len(r) - 1) : StrLess(r[k], r[k + 1])
        /\ \A k \in 1..Len(r) : \E f \in matching : r[k] = Stem(f)
        /\ \A f \in matching : Cardinality({k \in 1..Len(r) : r[k] = Stem(f)}) = 1
        /\ Len(r) = Cardinality(matching)

\* C10 as stated: the block a run builds is matched in full by the pattern, and
\* after a run that found a block the file holds the block of the names that
\* run scanned.
C10_BlockFoundAgain ==
    fresh =>
        LET b == RenderBlock(AudioFiles(dir))
        IN  /\ MatchEnd(b, 1) = Len(b) + 1
            /\ (nrepl > 0 /\ result # "error") =>
                  \E p \in MatchStarts(file) : SubSeq(file, p, MatchEnd(file, p) - 1) = b

====
